---- MODULE Spec2Model ----
(***************************************************************************)
(* Model of the sheet-music conversion pipeline (main.py and the stage     *)
(* adapters under src/).  One run of run_conversion_pipeline is a          *)
(* sequential process: every adapter call and every controller step        *)
(* between two calls is one action, so that two runs can interleave at the *)
(* places where the real processes can.  The file system is shared: the    *)
(* adapters write into tempfile.gettempdir() and name their output after   *)
(* the stem of their input file; Export writes into outputDir/projectId/.  *)
(***************************************************************************)
EXTENDS Naturals, Integers, Sequences, FiniteSets, TLC

VARIABLES
    cfg,            \* per run: the arguments of run_conversion_pipeline
    pc,             \* per run: position of the controller
    returned,       \* per run: the result each stage call returned
    results,        \* per run: pipeline_state['results']
    temp_files,     \* per run: pipeline_state['temp_files']
    final_musicxml, \* per run: the local final_musicxml
    final,          \* per run: the value run_conversion_pipeline returns
    ci,             \* per run: loop index of cleanup_temp_files
    fs,             \* the file system: path -> content
    dirs,           \* project directories that exist under outputDir
    recent,         \* per looked-up kind: stems of the files on disk, by mtime
    hist,           \* per run: history of what the run did (observation only)
    ns,             \* the note-stream normalizer and scorer of the convert stage
    conf            \* the Config object: default_config, config, their dictionaries

vars == <<cfg, pc, returned, results, temp_files, final_musicxml, final, ci,
          fs, dirs, recent, hist, ns, conf>>

-----------------------------------------------------------------------------
(* Universe.                                                               *)

Runs == {1, 2}

\* How many unlinks may fail in one behaviour.
MaxUnlinkFailures == 1

\* Stems of input file names.  "a" is a substring of "ab".
Stems == {"a", "ab"}

Pids == {"p1", "p2"}

\* "a in b" on stems, as Python's substring test on lower-cased names.
Contains(x, y) == x = y \/ (x = "a" /\ y = "ab")

None == <<"none", "", "">>

SrcPath(stem) == <<"in", stem, "src">>
TmpPath(stem, kind) == <<"tmp", stem, kind>>
OutPath(pid, kind) == <<"out", pid, kind>>

TmpKinds == {"wav", "mid", "musicxml", "refined"}
OutKinds == {"musicxml", "pdf", "metadata"}

TmpPaths == {TmpPath(s, k) : s \in Stems, k \in TmpKinds}
SrcPaths == {SrcPath(s) : s \in Stems}
OutPaths == {OutPath(p, k) : p \in Pids, k \in OutKinds}
AllPaths == TmpPaths \cup SrcPaths \cup OutPaths

StemOf(path) == path[2]

Absent == [absent |-> TRUE]
Content(r, kind, empty) == [by |-> r, kind |-> kind, empty |-> empty]

Exists(f, p) == p # None /\ f[p] # Absent
NonEmpty(f, p) == Exists(f, p) /\ ~f[p].empty

NoRes == [none |-> TRUE]
Ok(path) == [success |-> TRUE, path |-> path, error |-> "None"]
Failed(msg) == [success |-> FALSE, path |-> None, error |-> msg]

NoFinal == [none |-> TRUE]

StageKeys == {"input", "transcription", "conversion", "refinement"}

Range(s) == {s[i] : i \in 1..Len(s)}
Count(s, x) == Cardinality({i \in 1..Len(s) : s[i] = x})
Last(s) == s[Len(s)]

Upd(f, r, v) == [f EXCEPT ![r] = v]

-----------------------------------------------------------------------------
(* Results and the controller's small decisions.                           *)

ReturnKeys == StageKeys \cup {"download"}

\* The dictionary the controller returns when a mandatory stage failed.
StageFailure(prefix, err) ==
    [success |-> FALSE, has_error |-> TRUE, error |-> <<prefix, err>>,
     errors |-> {}, project_dir |-> "None", files |-> {},
     keys |-> {"success", "error", "project_dir", "files"}]

\* The dictionary of the controller's except clause: error = str(e).
FaultResult(msg) ==
    [success |-> FALSE, has_error |-> TRUE, error |-> <<"", msg>>,
     errors |-> {}, project_dir |-> "None", files |-> {},
     keys |-> {"success", "error", "project_dir", "files"}]

\* The early returns of MusicExporter.export_project.
ExportFailure(pid, msg) ==
    [success |-> FALSE, has_error |-> TRUE, error |-> <<"", msg>>,
     errors |-> {}, project_dir |-> pid, files |-> {},
     keys |-> {"project_dir", "musicxml_path", "pdf_path", "metadata_path",
               "success", "error"}]

\* Faulty variant: the summary's success follows the PDF alone.
ExportSummary_PdfDecides(pid, pdfOk, metaOk) ==
    [success |-> pdfOk, has_error |-> FALSE, error |-> <<"", "">>,
     errors |-> (IF pdfOk THEN {} ELSE {"PDF generation failed"})
                \cup (IF metaOk THEN {} ELSE {"Metadata generation failed"}),
     project_dir |-> pid,
     files |-> {OutPath(pid, "musicxml")}
               \cup (IF pdfOk THEN {OutPath(pid, "pdf")} ELSE {})
               \cup (IF metaOk THEN {OutPath(pid, "metadata")} ELSE {}),
     keys |-> {"project_id", "created_at", "project_dir", "files", "success",
               "errors"}]

\* The summary of MusicExporter.export_project: it has an 'errors' list and
\* no 'error' key.
ExportSummary(pid, pdfOk, metaOk) ==
    [success |-> pdfOk /\ metaOk, has_error |-> FALSE, error |-> <<"", "">>,
     errors |-> (IF pdfOk THEN {} ELSE {"PDF generation failed"})
                \cup (IF metaOk THEN {} ELSE {"Metadata generation failed"}),
     project_dir |-> pid,
     files |-> {OutPath(pid, "musicxml")}
               \cup (IF pdfOk THEN {OutPath(pid, "pdf")} ELSE {})
               \cup (IF metaOk THEN {OutPath(pid, "metadata")} ELSE {}),
     keys |-> {"project_id", "created_at", "project_dir", "files", "success",
               "errors"}]

\* Faulty variant: a failed mandatory stage does not end the run.
OnStageFailure_Continue == "export"

\* Where the controller goes when a mandatory stage reported failure: it
\* returns, so only the finally clause is left.
OnStageFailure == "cleanup"

\* pipeline_state['results'][key] = result
RecordResult(res, key, v) == [res EXCEPT ![key] = v]

\* Faulty variant: the artifact is not recorded.
RecordTemp_Skip(tf, path) == tf

\* Faulty variant: the list is overwritten instead of extended.
RecordTemp_Replace(tf, path) == <<path>>

\* pipeline_state['temp_files'].append(path)
RecordTemp(tf, path) == Append(tf, path)

\* Faulty variant: the refine flag is ignored.
AfterConversion_AlwaysRefine(refine) == "refine"

\* The stage that follows a recorded conversion: "if refine:".
AfterConversion(refine) == IF refine THEN "refine" ELSE "export"

\* Faulty variant: the refined path is used whatever the refiner reported.
FinalMusicxml_AlwaysRefined(refinement, conversion) == refinement.path

\* Faulty variant: the refined file is never used.
FinalMusicxml_NeverRefined(refinement, conversion) == conversion.path

\* The artifact handed to Export after a refinement attempt.
FinalMusicxml(refinement, conversion) ==
    IF refinement.success THEN refinement.path ELSE conversion.path

\* Faulty variant: the try block encloses the whole loop, so the first failed
\* unlink ends it.
NextCleanupIndex_AbortOnFailure(i, n, failed) == IF failed THEN n + 1 ELSE i + 1

\* The cleanup loop after the unlink of entry i of n; failed says whether the
\* unlink raised (the except clause is inside the loop body).
NextCleanupIndex(i, n, failed) == i + 1

-----------------------------------------------------------------------------
(* The adapters' file lookups.                                             *)

FilesOfKind(f, kind) == {p \in TmpPaths : p[3] = kind /\ f[p] # Absent}

\* The kinds of temp file an adapter looks up by glob.
LookupKinds == {"wav", "mid"}

Without(s, x) == SelectSeq(s, LAMBDA y : y # x)

\* A write makes the file the most recently modified of its kind.
Touch(rc, p) ==
    IF p[1] = "tmp" /\ p[3] \in LookupKinds
    THEN [rc EXCEPT ![p[3]] = Append(Without(@, StemOf(p)), StemOf(p))]
    ELSE rc

Forget(rc, p) ==
    IF p[1] = "tmp" /\ p[3] \in LookupKinds
    THEN [rc EXCEPT ![p[3]] = Without(@, StemOf(p))]
    ELSE rc

\* max(files, key=st_mtime)
Newest(rc, kind) == TmpPath(Last(rc[kind]), kind)

\* The files a lookup may return: any file of the kind whose stem contains
\* the base name (glob order decides which comes first), else the most
\* recently modified one, else None.
FindByName(f, rc, kind, base) ==
    LET all == FilesOfKind(f, kind)
        hit == {p \in all : Contains(base, StemOf(p))}
    IN  IF all = {} THEN {None}
        ELSE IF hit # {} THEN hit
        ELSE {Newest(rc, kind)}

FindDownloadedFile(f, rc, title) == FindByName(f, rc, "wav", title)

FindGeneratedMidi(f, rc, base) == FindByName(f, rc, "mid", base)

Write(f, p, c) == [f EXCEPT ![p] = c]

\* Faulty variant: the file is only logged as cleaned up.
Unlink_Noop(f, p) == f

\* Path(file_path).unlink(), when it does not raise.
Unlink(f, p) == [f EXCEPT ![p] = Absent]

-----------------------------------------------------------------------------
(* History helpers.                                                        *)

NoHist == [invoked |-> <<>>, created |-> {}, unlinked |-> <<>>, failed |-> {},
           missing |-> {},
           export_arg |-> None, fault |-> "none", conv_content |-> Absent,
           calls |-> <<>>, cfail |-> {}]

Invoke(h, stage) == [h EXCEPT !.invoked = Append(@, stage)]
Create(h, p) == [h EXCEPT !.created = @ \cup {p}]

\* The places where an adapter runs an external program or library.
CallSites == {"yt-dlp", "yt-dlp-json", "ffmpeg", "ffprobe", "basic-pitch",
              "music21", "openai", "musescore"}

\* Faulty variant: a failed call is tried once more.
Attempts_RetryOnce(failed) == IF failed THEN 2 ELSE 1

\* How often a call site runs its collaborator: each is a single call, in no
\* loop; failed says whether the call failed.
Attempts(failed) == 1

\* The adapter runs the collaborator of call site c; failed: it exited
\* non-zero, raised or timed out.
Call(h, c, failed) ==
    [h EXCEPT !.calls = @ \o [i \in 1..Attempts(failed) |-> c],
              !.cfail = IF failed THEN @ \cup {c} ELSE @]

\* The normalizer at rest: no conversion is being computed.
NoNs == [mode |-> "off"]

\* No Config object is under observation.
NoConf == [mode |-> "off"]

-----------------------------------------------------------------------------
(* Initial states.                                                         *)

RunCfg == [stem : Stems, url : BOOLEAN, refine : BOOLEAN, pdf : BOOLEAN, pid : Pids]

IdleCfg == [stem |-> "a", url |-> FALSE, refine |-> FALSE, pdf |-> FALSE, pid |-> "p2"]

\* The user's audio files that exist when the runs start.
InitFs(src) ==
    [p \in AllPaths |->
        IF p \in SrcPaths /\ StemOf(p) \in src THEN Content(0, "src", FALSE)
        ELSE Absent]

InitState(c, start, src) ==
    /\ cfg = c
    /\ pc = [r \in Runs |-> IF r \in start THEN "ingest" ELSE "idle"]
    /\ returned = [r \in Runs |-> [k \in ReturnKeys |-> NoRes]]
    /\ results = [r \in Runs |-> [k \in StageKeys |-> NoRes]]
    /\ temp_files = [r \in Runs |-> <<>>]
    /\ final_musicxml = [r \in Runs |-> None]
    /\ final = [r \in Runs |-> NoFinal]
    /\ ci = [r \in Runs |-> 1]
    /\ fs = InitFs(src)
    /\ dirs = {}
    /\ recent = [k \in LookupKinds |-> <<>>]
    /\ hist = [r \in Runs |-> NoHist]
    /\ ns = NoNs
    /\ conf = NoConf

\* One run, alone on the machine.
Init ==
    \E c \in RunCfg, src \in SUBSET Stems :
        /\ c.pid = "p1"
        /\ InitState([r \in Runs |-> IF r = 1 THEN c ELSE IdleCfg], {1}, src)

-----------------------------------------------------------------------------
(* Step 1: process_input.                                                  *)

\* YouTubeDownloader.download_audio: yt-dlp writes <title>.wav into the temp
\* directory, a second yt-dlp call asks for the metadata (title "Unknown" when
\* it fails), then the adapter looks the file up by title.
DownloadAudio(r) ==
    /\ UNCHANGED <<ns, conf>>
    /\ pc[r] = "ingest"
    /\ cfg[r].url
    /\ \E o \in {"ok", "fail"} :
        LET p   == TmpPath(cfg[r].stem, "wav")
            fs1 == IF o = "ok" THEN Write(fs, p, Content(r, "download", FALSE))
                   ELSE fs
            rc1 == IF o = "ok" THEN Touch(recent, p) ELSE recent
        IN  /\ fs' = fs1
            /\ recent' = rc1
            /\ hist' = Upd(hist, r,
                   IF o = "ok"
                   THEN Call(Call(Create(Invoke(hist[r], "ingest"), p),
                                  "yt-dlp", FALSE), "yt-dlp-json", FALSE)
                   ELSE Call(Invoke(hist[r], "ingest"), "yt-dlp", TRUE))
            /\ IF o = "fail"
               THEN /\ returned' = Upd(returned, r,
                          [returned[r] EXCEPT !["download"] = Failed("yt-dlp failed"),
                                              !["input"] = Failed("yt-dlp failed")])
                    /\ pc' = Upd(pc, r, "ingest_ret")
               ELSE \E title \in {cfg[r].stem, "Unknown"} :
                    \E d \in FindDownloadedFile(fs1, rc1, title) :
                      IF Exists(fs1, d)
                      THEN /\ returned' = Upd(returned, r,
                                 [returned[r] EXCEPT !["download"] = Ok(d)])
                           /\ pc' = Upd(pc, r, "ingest_conv")
                      ELSE /\ returned' = Upd(returned, r,
                                 [returned[r] EXCEPT
                                     !["download"] = Failed("Downloaded file not found"),
                                     !["input"] = Failed("Downloaded file not found")])
                           /\ pc' = Upd(pc, r, "ingest_ret")
    /\ UNCHANGED <<cfg, results, temp_files, final_musicxml, final, ci, dirs>>

\* AudioConverter.convert_to_wav: ffmpeg writes <input stem>.wav into the
\* temp directory.
ConvertToWav(r) ==
    /\ UNCHANGED <<ns, conf>>
    /\ \/ pc[r] = "ingest" /\ ~cfg[r].url
       \/ pc[r] = "ingest_conv"
    /\ LET input  == IF cfg[r].url THEN returned[r]["download"].path
                     ELSE SrcPath(cfg[r].stem)
           output == TmpPath(StemOf(input), "wav")
           h      == IF cfg[r].url THEN hist[r] ELSE Invoke(hist[r], "ingest")
       IN  IF ~Exists(fs, input)
           THEN /\ returned' = Upd(returned, r,
                      [returned[r] EXCEPT !["input"] = Failed("Input file not found")])
                /\ hist' = Upd(hist, r, h)
                /\ UNCHANGED <<fs, recent>>
           ELSE \E o \in {"ok", "empty", "error"} :
                  LET fs1 == IF o = "error" THEN fs
                             ELSE Write(fs, output, Content(r, "wav", o = "empty"))
                  IN  /\ fs' = fs1
                      /\ recent' = IF o = "error" THEN recent ELSE Touch(recent, output)
                      /\ hist' = Upd(hist, r,
                            IF o = "error" THEN Call(h, "ffmpeg", TRUE)
                            ELSE IF NonEmpty(fs1, output)
                            THEN Call(Call(Create(h, output), "ffmpeg", FALSE),
                                      "ffprobe", FALSE)
                            ELSE Call(Create(h, output), "ffmpeg", FALSE))
                      /\ returned' = Upd(returned, r,
                            [returned[r] EXCEPT !["input"] =
                                IF o = "error" THEN Failed("ffmpeg failed")
                                ELSE IF NonEmpty(fs1, output) THEN Ok(output)
                                ELSE Failed("output file not created or empty")])
    /\ pc' = Upd(pc, r, "ingest_ret")
    /\ UNCHANGED <<cfg, results, temp_files, final_musicxml, final, ci, dirs>>

\* run_conversion_pipeline, lines 236-245.
RecordInput(r) ==
    /\ UNCHANGED <<ns, conf>>
    /\ pc[r] = "ingest_ret"
    /\ IF ~returned[r]["input"].success
       THEN /\ final' = Upd(final, r,
                  StageFailure("Input processing failed", returned[r]["input"].error))
            /\ pc' = Upd(pc, r, OnStageFailure)
            /\ UNCHANGED <<results, temp_files>>
       ELSE /\ results' = Upd(results, r,
                  RecordResult(results[r], "input", returned[r]["input"]))
            /\ temp_files' = Upd(temp_files, r,
                  RecordTemp(temp_files[r], returned[r]["input"].path))
            /\ pc' = Upd(pc, r, "transcribe")
            /\ UNCHANGED final
    /\ UNCHANGED <<cfg, returned, final_musicxml, ci, fs, dirs, recent, hist>>

-----------------------------------------------------------------------------
(* Step 2: transcribe_audio.                                               *)

\* An exception that leaves a stage wrapper lands in the controller's except
\* clause (lines 338-345); the finally clause then runs the cleanup.
Raise(r, stage, msg) ==
    /\ final' = Upd(final, r, FaultResult(msg))
    /\ pc' = Upd(pc, r, "cleanup")
    /\ hist' = Upd(hist, r, [Invoke(hist[r], stage) EXCEPT !.fault = stage])
    /\ UNCHANGED <<returned, fs, recent>>

\* main.transcribe_audio and AudioTranscriber.transcribe_audio: BasicPitch
\* writes a MIDI file named after the audio stem into the temp directory, then
\* the adapter looks a MIDI file up by that stem.
TranscribeAudio(r) ==
    /\ UNCHANGED <<ns, conf>>
    /\ pc[r] = "transcribe"
    /\ LET audio == results[r]["input"].path
           midi  == TmpPath(StemOf(audio), "mid")
       IN  \E o \in {"ctor_raise", "ok", "empty", "nofile", "raise"} :
             IF o = "ctor_raise"
             THEN Raise(r, "transcribe", "BasicPitch is not available")
             ELSE
               /\ pc' = Upd(pc, r, "transcribe_ret")
               /\ UNCHANGED final
               /\ IF ~Exists(fs, audio)
                  THEN /\ returned' = Upd(returned, r,
                             [returned[r] EXCEPT !["transcription"] =
                                 Failed("Audio file not found")])
                       /\ hist' = Upd(hist, r, Invoke(hist[r], "transcribe"))
                       /\ UNCHANGED <<fs, recent>>
                  ELSE IF o = "raise"
                  THEN /\ returned' = Upd(returned, r,
                             [returned[r] EXCEPT !["transcription"] =
                                 Failed("Transcription failed")])
                       /\ hist' = Upd(hist, r,
                             Call(Invoke(hist[r], "transcribe"), "basic-pitch", TRUE))
                       /\ UNCHANGED <<fs, recent>>
                  ELSE
                    LET wrote == o \in {"ok", "empty"}
                        fs1 == IF wrote
                               THEN Write(fs, midi, Content(r, "mid", o = "empty"))
                               ELSE fs
                        rc1 == IF wrote THEN Touch(recent, midi) ELSE recent
                    IN  /\ fs' = fs1
                        /\ recent' = rc1
                        /\ hist' = Upd(hist, r,
                              Call(IF wrote
                                   THEN Create(Invoke(hist[r], "transcribe"), midi)
                                   ELSE Invoke(hist[r], "transcribe"),
                                   "basic-pitch", FALSE))
                        /\ \E m \in FindGeneratedMidi(fs1, rc1, StemOf(audio)) :
                             returned' = Upd(returned, r,
                                [returned[r] EXCEPT !["transcription"] =
                                    IF Exists(fs1, m) THEN Ok(m)
                                    ELSE Failed("MIDI file not generated")])
    /\ UNCHANGED <<cfg, results, temp_files, final_musicxml, ci, dirs>>

\* run_conversion_pipeline, lines 258-267.
RecordTranscription(r) ==
    /\ UNCHANGED <<ns, conf>>
    /\ pc[r] = "transcribe_ret"
    /\ IF ~returned[r]["transcription"].success
       THEN /\ final' = Upd(final, r,
                  StageFailure("Transcription failed", returned[r]["transcription"].error))
            /\ pc' = Upd(pc, r, OnStageFailure)
            /\ UNCHANGED <<results, temp_files>>
       ELSE /\ results' = Upd(results, r,
                  RecordResult(results[r], "transcription", returned[r]["transcription"]))
            /\ temp_files' = Upd(temp_files, r,
                  RecordTemp(temp_files[r], returned[r]["transcription"].path))
            /\ pc' = Upd(pc, r, "convert")
            /\ UNCHANGED final
    /\ UNCHANGED <<cfg, returned, final_musicxml, ci, fs, dirs, recent, hist>>

-----------------------------------------------------------------------------
(* Step 3: convert_midi_to_musicxml.                                       *)

\* main.convert_midi_to_musicxml and
\* MidiToMusicXmlConverter.convert_midi_to_musicxml: music21 parses the MIDI
\* file (an empty file does not parse) and writes <midi stem>.musicxml.
ConvertMidi(r) ==
    /\ UNCHANGED <<ns, conf>>
    /\ pc[r] = "convert"
    /\ LET midi == results[r]["transcription"].path
           xml  == TmpPath(StemOf(midi), "musicxml")
       IN  \E o \in {"ctor_raise", "ok", "empty", "raise"} :
             IF o = "ctor_raise"
             THEN Raise(r, "convert", "music21 is not available")
             ELSE
               /\ pc' = Upd(pc, r, "convert_ret")
               /\ UNCHANGED final
               /\ IF ~Exists(fs, midi)
                  THEN /\ returned' = Upd(returned, r,
                             [returned[r] EXCEPT !["conversion"] =
                                 Failed("MIDI file not found")])
                       /\ hist' = Upd(hist, r, Invoke(hist[r], "convert"))
                       /\ UNCHANGED <<fs, recent>>
                  ELSE IF o = "raise" \/ fs[midi].empty
                  THEN /\ returned' = Upd(returned, r,
                             [returned[r] EXCEPT !["conversion"] =
                                 Failed("Conversion failed")])
                       /\ hist' = Upd(hist, r,
                             Call(Invoke(hist[r], "convert"), "music21", TRUE))
                       /\ UNCHANGED <<fs, recent>>
                  ELSE
                    LET fs1 == Write(fs, xml, Content(r, "musicxml", o = "empty"))
                    IN  /\ fs' = fs1
                        /\ recent' = Touch(recent, xml)
                        /\ hist' = Upd(hist, r,
                              [Call(Create(Invoke(hist[r], "convert"), xml),
                                    "music21", FALSE)
                                  EXCEPT !.conv_content = fs1[xml]])
                        /\ returned' = Upd(returned, r,
                              [returned[r] EXCEPT !["conversion"] =
                                  IF NonEmpty(fs1, xml) THEN Ok(xml)
                                  ELSE Failed("MusicXML file not created or empty")])
    /\ UNCHANGED <<cfg, results, temp_files, final_musicxml, ci, dirs>>

\* run_conversion_pipeline, lines 280-289 and 297-299, 318-319.
RecordConversion(r) ==
    /\ UNCHANGED <<ns, conf>>
    /\ pc[r] = "convert_ret"
    /\ IF ~returned[r]["conversion"].success
       THEN /\ final' = Upd(final, r,
                  StageFailure("Conversion failed", returned[r]["conversion"].error))
            /\ pc' = Upd(pc, r, OnStageFailure)
            /\ UNCHANGED <<results, temp_files, final_musicxml>>
       ELSE /\ results' = Upd(results, r,
                  RecordResult(results[r], "conversion", returned[r]["conversion"]))
            /\ temp_files' = Upd(temp_files, r,
                  RecordTemp(temp_files[r], returned[r]["conversion"].path))
            /\ pc' = Upd(pc, r, AfterConversion(cfg[r].refine))
            /\ final_musicxml' =
                  IF AfterConversion(cfg[r].refine) = "export"
                  THEN Upd(final_musicxml, r, returned[r]["conversion"].path)
                  ELSE final_musicxml
            /\ UNCHANGED final
    /\ UNCHANGED <<cfg, returned, ci, fs, dirs, recent, hist>>

-----------------------------------------------------------------------------
(* Step 4: refine_musicxml (optional).                                     *)

\* main.refine_musicxml and MusicXmlRefiner.refine_musicxml.  The constructor
\* raises without the openai package or an API key; the adapter's own try
\* block covers the API call and the write of <musicxml stem>_refined.musicxml,
\* which is opened for writing before its content is evaluated.
RefineMusicxml(r) ==
    /\ UNCHANGED <<ns, conf>>
    /\ pc[r] = "refine"
    /\ LET xml     == results[r]["conversion"].path
           refined == TmpPath(StemOf(xml), "refined")
       IN  \E o \in {"ctor_raise", "api_fail", "write_fail", "ok", "ok_empty"} :
             IF o = "ctor_raise"
             THEN Raise(r, "refine", "OpenAI API key not provided")
             ELSE
               /\ pc' = Upd(pc, r, "refine_ret")
               /\ UNCHANGED final
               /\ IF ~Exists(fs, xml)
                  THEN /\ returned' = Upd(returned, r,
                             [returned[r] EXCEPT !["refinement"] =
                                 Failed("MusicXML file not found")])
                       /\ hist' = Upd(hist, r, Invoke(hist[r], "refine"))
                       /\ UNCHANGED <<fs, recent>>
                  ELSE IF o = "api_fail"
                  THEN /\ returned' = Upd(returned, r,
                             [returned[r] EXCEPT !["refinement"] =
                                 Failed("Refinement failed")])
                       /\ hist' = Upd(hist, r,
                             Call(Invoke(hist[r], "refine"), "openai", TRUE))
                       /\ UNCHANGED <<fs, recent>>
                  ELSE
                    /\ fs' = Write(fs, refined,
                                Content(r, "refined", o # "ok"))
                    /\ recent' = Touch(recent, refined)
                    /\ hist' = Upd(hist, r,
                          Call(Create(Invoke(hist[r], "refine"), refined),
                               "openai", FALSE))
                    /\ returned' = Upd(returned, r,
                          [returned[r] EXCEPT !["refinement"] =
                              IF o = "write_fail" THEN Failed("Refinement failed")
                              ELSE Ok(refined)])
    /\ UNCHANGED <<cfg, results, temp_files, final_musicxml, ci, dirs>>

\* run_conversion_pipeline, lines 304-311.
RecordRefinement(r) ==
    /\ UNCHANGED <<ns, conf>>
    /\ pc[r] = "refine_ret"
    /\ IF returned[r]["refinement"].success
       THEN /\ results' = Upd(results, r,
                  RecordResult(results[r], "refinement", returned[r]["refinement"]))
            /\ temp_files' = Upd(temp_files, r,
                  RecordTemp(temp_files[r], returned[r]["refinement"].path))
       ELSE UNCHANGED <<results, temp_files>>
    /\ final_musicxml' = Upd(final_musicxml, r,
          FinalMusicxml(returned[r]["refinement"], results[r]["conversion"]))
    /\ pc' = Upd(pc, r, "export")
    /\ UNCHANGED <<cfg, returned, final, ci, fs, dirs, recent, hist>>

-----------------------------------------------------------------------------
(* Step 5: export_project.                                                 *)

\* main.export_project and MusicExporter.export_project.  The pdf argument of
\* main.export_project is not used: generate_pdf is always called.  The two
\* mkdir calls (the exporter's constructor, the project directory) are outside
\* the adapter's try block: when one raises, the controller's except clause
\* decides the result.
ExportProject(r) ==
    /\ UNCHANGED <<ns, conf>>
    /\ pc[r] = "export"
    /\ LET pid == cfg[r].pid
           xml == final_musicxml[r]
           h   == [Invoke(hist[r], "export") EXCEPT !.export_arg = xml]
       IN  \/ /\ final' = Upd(final, r, FaultResult("mkdir failed"))
              /\ hist' = Upd(hist, r, [h EXCEPT !.fault = "export"])
              /\ UNCHANGED <<fs, recent, dirs>>
           \/ /\ dirs' = dirs \cup {pid}
              /\ IF ~Exists(fs, xml)
                 THEN /\ final' = Upd(final, r, ExportFailure(pid, "MusicXML file not found"))
                      /\ hist' = Upd(hist, r, h)
                      /\ UNCHANGED <<fs, recent>>
                 ELSE \E copy \in {"ok", "raise"},
                         pdf \in {"ok", "unavailable", "fail"},
                         meta \in {"ok", "fail"} :
                        IF copy = "raise"
                        THEN /\ final' = Upd(final, r,
                                   ExportFailure(pid, "Project export failed"))
                             /\ hist' = Upd(hist, r, h)
                             /\ UNCHANGED <<fs, recent>>
                        ELSE
                          LET fs1 == Write(fs, OutPath(pid, "musicxml"), fs[xml])
                              fs2 == IF pdf = "ok"
                                     THEN Write(fs1, OutPath(pid, "pdf"),
                                                Content(r, "pdf", FALSE))
                                     ELSE fs1
                              fs3 == IF meta = "ok"
                                     THEN Write(fs2, OutPath(pid, "metadata"),
                                                Content(r, "metadata", FALSE))
                                     ELSE fs2
                          IN  /\ fs' = fs3
                              /\ hist' = Upd(hist, r,
                                    IF pdf = "unavailable" THEN h
                                    ELSE Call(h, "musescore", pdf = "fail"))
                              /\ UNCHANGED recent
                              /\ final' = Upd(final, r,
                                    ExportSummary(pid, pdf = "ok", meta = "ok"))
    /\ pc' = Upd(pc, r, "cleanup")
    /\ UNCHANGED <<cfg, returned, results, temp_files, final_musicxml, ci>>

-----------------------------------------------------------------------------
(* The finally clause: cleanup_temp_files.                                 *)

\* The unlinks that have failed so far, over all runs.
FailedUnlinks == {<<r, p>> \in Runs \X TmpPaths : p \in hist[r].failed}

\* One iteration of the loop of cleanup_temp_files.  An unlink may raise, as
\* long as fewer than MaxUnlinkFailures have.
CleanupStep(r) ==
    /\ UNCHANGED <<ns, conf>>
    /\ pc[r] = "cleanup"
    /\ ci[r] <= Len(temp_files[r])
    /\ LET p == temp_files[r][ci[r]]
           n == Len(temp_files[r])
       IN  IF Exists(fs, p)
           THEN \E o \in {"ok", "fail"} :
                  /\ o = "fail" => Cardinality(FailedUnlinks) < MaxUnlinkFailures
                  /\ fs' = IF o = "ok" THEN Unlink(fs, p) ELSE fs
                  /\ recent' = IF o = "ok" THEN Forget(recent, p) ELSE recent
                  /\ hist' = Upd(hist, r,
                        IF o = "ok" THEN [hist[r] EXCEPT !.unlinked = Append(@, p)]
                        ELSE [hist[r] EXCEPT !.failed = @ \cup {p}])
                  /\ ci' = Upd(ci, r, NextCleanupIndex(ci[r], n, o = "fail"))
           ELSE /\ ci' = Upd(ci, r, ci[r] + 1)
                /\ hist' = Upd(hist, r, [hist[r] EXCEPT !.missing = @ \cup {p}])
                /\ UNCHANGED <<fs, recent>>
    /\ UNCHANGED <<cfg, pc, returned, results, temp_files, final_musicxml, final,
                   dirs>>

\* The loop is over: run_conversion_pipeline returns the decided result.
Return(r) ==
    /\ UNCHANGED <<ns, conf>>
    /\ pc[r] = "cleanup"
    /\ ci[r] > Len(temp_files[r])
    /\ pc' = Upd(pc, r, "done")
    /\ UNCHANGED <<cfg, returned, results, temp_files, final_musicxml, final, ci,
                   fs, dirs, recent, hist>>

-----------------------------------------------------------------------------
(* Specifications.                                                         *)

Step(r) ==
    \/ DownloadAudio(r)
    \/ ConvertToWav(r)
    \/ RecordInput(r)
    \/ TranscribeAudio(r)
    \/ RecordTranscription(r)
    \/ ConvertMidi(r)
    \/ RecordConversion(r)
    \/ RefineMusicxml(r)
    \/ RecordRefinement(r)
    \/ ExportProject(r)
    \/ CleanupStep(r)
    \/ Return(r)

Next == \E r \in Runs : Step(r)

Spec == Init /\ [][Next]_vars

-----------------------------------------------------------------------------
(* Properties of one run (specification Spec).                             *)

StageOfKey(k) ==
    CASE k = "input" -> "ingest"
      [] k = "transcription" -> "transcribe"
      [] k = "conversion" -> "convert"
      [] k = "refinement" -> "refine"

Invoked(r) == Range(hist[r].invoked)

ReportedFailure(r, k) == returned[r][k] # NoRes /\ ~returned[r][k].success

Returned(r) == pc[r] = "done"

\* C1: when Ingest, Transcribe, Convert or Export reports failure, no later
\* stage is invoked and the final result has success = false and an error
\* field that holds the failing stage's error.
C1_FailFastCarriesError ==
    \A r \in Runs :
        /\ \A k \in {"input", "transcription", "conversion"} :
              ReportedFailure(r, k) =>
                  /\ Last(hist[r].invoked) = StageOfKey(k)
                  /\ final[r] # NoFinal =>
                        /\ ~final[r].success
                        /\ final[r].has_error
                        /\ final[r].error[2] = returned[r][k].error
        /\ (final[r] # NoFinal /\ "export" \in Invoked(r) /\ ~final[r].success) =>
              final[r].has_error

\* C2: when the enabled Refine stage returns a failed result, Export is still
\* invoked with the Convert artifact path, the notation file of the bundle is a
\* copy of the Convert artifact, and the run's result is Export's result
\* (successful when Export reports no error).
C2_RefineFailureFallsBack ==
    \A r \in Runs :
        (cfg[r].refine /\ ReportedFailure(r, "refinement")
                       /\ pc[r] \in {"cleanup", "done"}) =>
            /\ "export" \in Invoked(r)
            /\ hist[r].export_arg = results[r]["conversion"].path
            /\ final[r].success = (~final[r].has_error /\ final[r].errors = {})
            /\ final[r].files # {} =>
                  fs[OutPath(cfg[r].pid, "musicxml")] = hist[r].conv_content

C2_Witness ==
    \E r \in Runs :
        /\ Returned(r)
        /\ cfg[r].refine
        /\ ReportedFailure(r, "refinement")
        /\ final[r].success
        /\ fs[OutPath(cfg[r].pid, "musicxml")] = hist[r].conv_content

\* C3: however the Refine stage fails (a failed result, or a fault raised while
\* the refiner is set up or invoked), the run goes on to Export with the
\* Convert artifact and Export decides the outcome.
C3_RefineFailureNeverPropagates ==
    \A r \in Runs :
        (Returned(r) /\ "refine" \in Invoked(r)
            /\ (ReportedFailure(r, "refinement") \/ hist[r].fault = "refine")) =>
            /\ "export" \in Invoked(r)
            /\ hist[r].export_arg = results[r]["conversion"].path

\* C4 as stated: after a run returns, no recorded temp artifact exists on disk
\* and each was deleted exactly once.
C4_AllTempFilesGone ==
    \A r \in Runs :
        Returned(r) =>
            \A p \in Range(temp_files[r]) :
                /\ fs[p] = Absent
                /\ Count(hist[r].unlinked, p) = 1

\* C4 as amended: after a run returns, the cleanup has handled every recorded
\* temp artifact in exactly one way: it deleted it, once, or its unlink failed
\* (swallowed, nothing deleted), or the path was no longer on disk; and a
\* recorded path that is on disk afterwards is one whose unlink failed or a
\* file that another run has written.
C4_TempFilesGoneUnlessUnlinkFailed ==
    \A r \in Runs :
        Returned(r) =>
            \A p \in Range(temp_files[r]) :
                /\ Count(hist[r].unlinked, p) =
                      (IF p \in hist[r].failed \cup hist[r].missing THEN 0 ELSE 1)
                /\ hist[r].failed \cap hist[r].missing = {}
                /\ fs[p] # Absent => p \in hist[r].failed \/ fs[p].by # r

C4_Witness ==
    \E r \in Runs :
        /\ Returned(r)
        /\ Len(temp_files[r]) >= 3
        /\ hist[r].failed # {}
        /\ Len(hist[r].unlinked) >= 2
        /\ \A p \in Range(temp_files[r]) : fs[p] # Absent <=> p \in hist[r].failed

\* C5: every intermediate file a stage of the run created is recorded in the
\* temp-artifact list, so none is left on disk after the run.
C5_CreatedFilesRecorded ==
    \A r \in Runs :
        Returned(r) =>
            \A p \in hist[r].created : p \in Range(temp_files[r])

IsPrefix(s, t) == Len(s) <= Len(t) /\ \A i \in 1..Len(s) : s[i] = t[i]

StageOrder(refine) ==
    IF refine THEN <<"ingest", "transcribe", "convert", "refine", "export">>
    ELSE <<"ingest", "transcribe", "convert", "export">>

\* C8: within a run the stages are invoked in the order Ingest, Transcribe,
\* Convert, Refine (only if enabled), Export, none twice and none before an
\* earlier one.
C8_FixedStageOrder ==
    \A r \in Runs : IsPrefix(hist[r].invoked, StageOrder(cfg[r].refine))

C8_Witness ==
    \E r \in Runs : Returned(r) /\ hist[r].invoked = StageOrder(TRUE)

Recorded(r, k) ==
    /\ results[r][k] # NoRes
    /\ results[r][k].success
    /\ results[r][k] = returned[r][k]
    /\ results[r][k].path \in Range(temp_files[r])

Begun(r, stage) == pc[r] = stage \/ stage \in Invoked(r)

\* C9: a stage that follows a mandatory stage never begins unless that stage's
\* successful result is recorded in the results mapping and its artifact in the
\* temp-artifact list.
C9_NextStageAfterRecordedSuccess ==
    \A r \in Runs :
        /\ Begun(r, "transcribe") => Recorded(r, "input")
        /\ Begun(r, "convert") => Recorded(r, "input") /\ Recorded(r, "transcription")
        /\ (Begun(r, "refine") \/ Begun(r, "export")) =>
              /\ Recorded(r, "input")
              /\ Recorded(r, "transcription")
              /\ Recorded(r, "conversion")

C9_Witness ==
    \E r \in Runs :
        /\ pc[r] = "export"
        /\ "refine" \in Invoked(r)
        /\ Len(temp_files[r]) >= 3

Attempted(r) == hist[r].failed \cup Range(hist[r].unlinked)

\* C10: a failed deletion at run end is swallowed: the run still returns, every
\* other recorded artifact is still submitted to deletion, and the result
\* decided before the cleanup is the result returned.
C10_CleanupFailureSwallowed ==
    /\ [](\A r \in Runs :
            /\ pc[r] = "cleanup" => final[r] # NoFinal
            /\ Returned(r) => \A p \in Range(temp_files[r]) : p \in Attempted(r))
    /\ [][\A r \in Runs : pc[r] = "cleanup" =>
             /\ final'[r] = final[r]
             /\ pc'[r] \in {"cleanup", "done"}]_vars

C10_Witness ==
    \E r \in Runs :
        /\ Returned(r)
        /\ final[r].success
        /\ \E i, j \in 1..Len(temp_files[r]) :
              /\ i < j
              /\ temp_files[r][i] \in hist[r].failed
              /\ temp_files[r][j] \in Range(hist[r].unlinked)

-----------------------------------------------------------------------------
(* Two runs started side by side (specification SpecConc).                 *)

\* Both runs find their input file and have distinct project ids; the first
\* works on "a" with refinement, the second is a plain local run on either
\* stem.
InitConc ==
    \E u \in BOOLEAN, s \in Stems :
        InitState(
            [r \in Runs |->
                IF r = 1
                THEN [stem |-> "a", url |-> u, refine |-> TRUE, pdf |-> FALSE, pid |-> "p1"]
                ELSE [stem |-> s, url |-> FALSE, refine |-> FALSE, pdf |-> FALSE, pid |-> "p2"]],
            Runs, Stems)

SpecConc == InitConc /\ [][Next]_vars

InProgress(r) == pc[r] \notin {"idle", "cleanup", "done"}

\* C6: two runs with distinct project ids never contend for a file: as long
\* as a run is in progress, every artifact it has recorded is on disk and is
\* the file this run wrote (no other run overwrote or deleted it).
C6_RunsDoNotShareFiles ==
    \A r \in Runs : \A q \in Runs \ {r} :
        (cfg[r].pid # cfg[q].pid /\ InProgress(r)) =>
            \A p \in Range(temp_files[r]) : fs[p] # Absent /\ fs[p].by = r

\* C7: a stage's output path is a function of the project id and the stage
\* alone: runs with the same project id produce the same path at each stage,
\* runs with different project ids produce different paths.
C7_PathsFromProjectId ==
    \A r \in Runs : \A q \in Runs \ {r} : \A k \in StageKeys :
        (results[r][k] # NoRes /\ results[q][k] # NoRes) =>
            ((cfg[r].pid = cfg[q].pid) <=> (results[r][k].path = results[q][k].path))

-----------------------------------------------------------------------------
(* More properties of one run (specification Spec).                        *)

\* The controller positions at which a stage after Ingest starts.
StageStart == {"transcribe", "convert", "refine", "export"}

\* C11: during a run the temp-artifact list only grows by appending, the run
\* deletes no recorded artifact before its exit, and every recorded artifact is
\* on disk when a later stage of the run starts.
C11_TempListAppendOnly ==
    /\ [](\A r \in Runs :
            /\ InProgress(r) => hist[r].unlinked = <<>>
            /\ pc[r] \in StageStart =>
                  \A p \in Range(temp_files[r]) : Exists(fs, p))
    /\ [][\A r \in Runs : IsPrefix(temp_files[r], temp_files'[r])]_vars

C11_Witness ==
    \E r \in Runs :
        /\ pc[r] = "export"
        /\ Len(temp_files[r]) = 4
        /\ \A p \in Range(temp_files[r]) : Exists(fs, p)

MandatoryKeys == {"input", "transcription", "conversion"}

NoOutput(r) ==
    /\ cfg[r].pid \notin dirs
    /\ \A k \in OutKinds : fs[OutPath(cfg[r].pid, k)] = Absent

\* C12: a run in which Ingest, Transcribe or Convert failed, and any run that
\* has not entered Export, has created nothing under outputDir/projectId/: no
\* project directory, no notation file, no PDF, no metadata file.
C12_NoOutputBeforeExport ==
    \A r \in Runs :
        ((\E k \in MandatoryKeys : ReportedFailure(r, k))
            \/ "export" \notin Invoked(r)) => NoOutput(r)

C12_Witness ==
    \E r \in Runs :
        /\ Returned(r)
        /\ ReportedFailure(r, "conversion")
        /\ hist[r].created # {}
        /\ NoOutput(r)

-----------------------------------------------------------------------------
(* A run and its environment (specification SpecEnv): a collaborator that  *)
(* never returns, and a signal sent to the process.                        *)

\* The controller positions at which a stage is waiting for its collaborator.
CallPositions == {"ingest", "ingest_conv", "transcribe", "convert", "refine",
                  "export"}

\* Whether the collaborator call made at a position is given a timeout:
\* subprocess.run(..., timeout=300) for yt-dlp, ffmpeg and MuseScore, timeout=60
\* for the OpenAI request; predict_and_save and music21's parse and write are
\* plain in-process calls.
HasTimeout(pos) == pos \in {"ingest", "ingest_conv", "refine", "export"}

\* The library call of the position, for the two positions without timeout.
LibraryOf(pos) == IF pos = "transcribe" THEN "basic-pitch" ELSE "music21"

\* The artifact the stage at a position without timeout works on.
InputOf(r, pos) ==
    IF pos = "transcribe" THEN results[r]["input"].path
    ELSE results[r]["transcription"].path

\* The collaborator of the stage never returns.  Where the call has a timeout
\* this is the failure outcome of the stage's own action; where it has none
\* the stage call never returns.
Hang(r) ==
    /\ UNCHANGED <<ns, conf>>
    /\ pc[r] \in CallPositions
    /\ ~HasTimeout(pc[r])
    /\ Exists(fs, InputOf(r, pc[r]))
    /\ pc' = Upd(pc, r, "blocked")
    /\ hist' = Upd(hist, r, Call(Invoke(hist[r], pc[r]), LibraryOf(pc[r]), FALSE))
    /\ UNCHANGED <<cfg, returned, results, temp_files, final_musicxml, final, ci,
                   fs, dirs, recent>>

Signals == {"SIGINT", "SIGTERM"}

\* run_conversion_pipeline left by a KeyboardInterrupt: nothing is returned.
Interrupted == [interrupted |-> TRUE]

\* A signal arrives while a stage waits for its collaborator.  SIGINT becomes
\* a KeyboardInterrupt, which no "except Exception" clause catches: the finally
\* clause runs the cleanup and main exits with status 1.  No handler is
\* installed for SIGTERM: the process ends at once.
Cancel(r) ==
    /\ UNCHANGED <<ns, conf>>
    /\ pc[r] \in CallPositions \cup {"blocked"}
    /\ \E sig \in Signals :
         /\ hist' = Upd(hist, r, [hist[r] EXCEPT !.fault = sig])
         /\ IF sig = "SIGINT"
            THEN /\ pc' = Upd(pc, r, "cleanup")
                 /\ final' = Upd(final, r, Interrupted)
            ELSE /\ pc' = Upd(pc, r, "killed")
                 /\ UNCHANGED final
    /\ UNCHANGED <<cfg, returned, results, temp_files, final_musicxml, ci, fs,
                   dirs, recent>>

\* The steps of the program itself.
NextRun == \E r \in Runs : Step(r) \/ Hang(r)

NextEnv == NextRun \/ \E r \in Runs : Cancel(r)

\* The process keeps running while it can; signals may or may not arrive.
SpecEnv == Init /\ [][NextEnv]_vars /\ WF_vars(NextRun)

IsResult(f) == f \notin {NoFinal, Interrupted}

Ended(r) == pc[r] \in {"done", "killed"}

\* C14: when a cancellation signal arrived while a stage was blocked, the run
\* ends with a failed final result (success = false) and with every temp
\* artifact recorded so far deleted.
C14_CancelFailsAndCleansUp ==
    \A r \in Runs :
        (hist[r].fault \in Signals /\ Ended(r)) =>
            /\ IsResult(final[r])
            /\ ~final[r].success
            /\ \A p \in Range(temp_files[r]) : ~Exists(fs, p)

\* C15: every run that starts eventually returns a final result: a
\* collaborator that never returns is cut off by the stage's timeout.
C15_EveryRunReturns ==
    \A r \in Runs : (pc[r] = "ingest") ~> Ended(r)

-----------------------------------------------------------------------------
(* Properties of the results and of the adapters.                          *)

\* The stage a failed final result names: the fail-fast returns prefix the
\* stage's name to the error, Export's own handler says "Project export
\* failed"; str(e) of a fault and the other messages name none.
FailedStageOf(f) ==
    IF ~f.has_error THEN "none"
    ELSE CASE f.error[1] = "Input processing failed" -> "ingest"
           [] f.error[1] = "Transcription failed" -> "transcribe"
           [] f.error[1] = "Conversion failed" -> "convert"
           [] f.error[2] = "Project export failed" -> "export"
           [] OTHER -> "none"

\* The entries of a final result that hold stage metrics.
FinalMetrics(f) == f.keys \cap ({"metrics", "results"} \cup StageKeys)

\* C13: the final result of every run names the stage that failed, if one
\* did, and holds the metrics of every stage that completed.
C13_FinalResultDiagnosable ==
    \A r \in Runs :
        (Returned(r) /\ IsResult(final[r])) =>
            /\ ~final[r].success => FailedStageOf(final[r]) # "none"
            /\ \A k \in StageKeys :
                  results[r][k] # NoRes => FinalMetrics(final[r]) # {}

\* Export was called and returned a dictionary (it did not raise).
ExportReturned(r) ==
    /\ "export" \in Invoked(r)
    /\ hist[r].fault # "export"
    /\ IsResult(final[r])

\* C16: in every result an adapter returned, success = true comes with an
\* artifact path and success = false with an error field; for Export, whose
\* result is the run's final result, also when PDF or metadata generation
\* failed.
C16_StageResultWellFormed ==
    \A r \in Runs :
        /\ \A k \in ReturnKeys :
              returned[r][k] # NoRes =>
                  /\ returned[r][k].success => returned[r][k].path # None
                  /\ ~returned[r][k].success => returned[r][k].error # "None"
        /\ ExportReturned(r) =>
              /\ final[r].success => final[r].files # {}
              /\ ~final[r].success => "error" \in final[r].keys

\* The controller position right after the adapter call that set a result.
ReturnPosition(k) ==
    CASE k = "download" -> "ingest_conv"
      [] k = "input" -> "ingest_ret"
      [] k = "transcription" -> "transcribe_ret"
      [] k = "conversion" -> "convert_ret"
      [] k = "refinement" -> "refine_ret"

\* C17: when an adapter returns success, the file its result points to exists
\* and is not empty.
C17_SuccessMeansNonEmptyFile ==
    \A r \in Runs : \A k \in ReturnKeys :
        (pc[r] = ReturnPosition(k) /\ returned[r][k] # NoRes
                                   /\ returned[r][k].success) =>
            NonEmpty(fs, returned[r][k].path)

\* The previous stage's artifact that the adapter called at a position reads
\* (None for the download, which reads none).
ArtifactAt(r, pos) ==
    CASE pos = "ingest" -> IF cfg[r].url THEN None ELSE SrcPath(cfg[r].stem)
      [] pos = "ingest_conv" -> returned[r]["download"].path
      [] pos = "transcribe" -> results[r]["input"].path
      [] pos = "convert" -> results[r]["transcription"].path
      [] pos = "refine" -> results[r]["conversion"].path
      [] pos = "export" -> final_musicxml[r]

\* C18: an adapter that is called while the previous stage's artifact is
\* missing invokes no collaborator and creates no file and no directory.
C18_MissingArtifactNoEffect ==
    [][\A r \in Runs :
         (/\ pc[r] \in CallPositions
          /\ pc'[r] # pc[r]
          /\ ~(pc[r] = "ingest" /\ cfg[r].url)
          /\ ~Exists(fs, ArtifactAt(r, pc[r]))) =>
             /\ fs' = fs
             /\ dirs' = dirs
             /\ hist'[r].calls = hist[r].calls]_vars

\* The result dictionary that reports on a call site, and its stage.
KeyOfCall(c) ==
    CASE c \in {"yt-dlp", "yt-dlp-json"} -> "download"
      [] c \in {"ffmpeg", "ffprobe"} -> "input"
      [] c = "basic-pitch" -> "transcription"
      [] c = "music21" -> "conversion"
      [] c = "openai" -> "refinement"
      [] c = "musescore" -> "export"

StageOfCall(c) ==
    IF KeyOfCall(c) \in {"download", "export"}
    THEN (IF KeyOfCall(c) = "download" THEN "ingest" ELSE "export")
    ELSE StageOfKey(KeyOfCall(c))

\* C19: every collaborator failure inside an adapter becomes a returned
\* result with success = false and an error field, and does not reach the
\* controller as a fault.
C19_CollaboratorFailureBecomesFailedResult ==
    \A r \in Runs : \A c \in hist[r].cfail :
        /\ hist[r].fault # StageOfCall(c)
        /\ IF c = "musescore"
           THEN IsResult(final[r]) /\ ~final[r].success
                                   /\ "error" \in final[r].keys
           ELSE /\ returned[r][KeyOfCall(c)] # NoRes
                /\ ~returned[r][KeyOfCall(c)].success
                /\ returned[r][KeyOfCall(c)].error # "None"

\* The external program or library behind a call site.
ProgramOf(c) == IF c = "yt-dlp-json" THEN "yt-dlp" ELSE c

Invocations(r, prog) ==
    Cardinality({i \in 1..Len(hist[r].calls) : ProgramOf(hist[r].calls[i]) = prog})

-----------------------------------------------------------------------------
(* The note stream of the convert stage (music21 streams).                 *)

\* Time is counted in ticks of a sixteenth note: 0.25 quarter lengths, the
\* default quantization resolution.
TicksPerQuarter == 4

\* What the attribute probes of the code answer for an element: isNote,
\* isChord, isRest, isTempo, isKeySignature, isTimeSignature; an element of
\* kind "other" answers none of them.
Kinds == {"note", "chord", "rest", "tempo", "key", "time", "other"}

Markers == {"tempo", "key", "time"}

\* The kinds _process_stream copies into the processed stream.
CopiedKinds == {"note", "chord", "rest", "tempo", "key", "time"}

Event(id, kind, voice, offset, dur) ==
    [id |-> id, kind |-> kind, voice |-> voice, offset |-> offset, dur |-> dur]

MaxOf(S) == CHOOSE x \in S : \A y \in S : y <= x

MinOf(S) == CHOOSE x \in S : \A y \in S : x <= y

\* A stream keeps its elements sorted by offset, then by class sort order
\* (markers before notes and rests), then by insertion: that is the order
\* in which "for element in stream_obj" visits them.
Rank(kind) == IF kind \in {"note", "chord", "rest"} THEN 1 ELSE 0

SortsBefore(x, e) ==
    \/ x.offset < e.offset
    \/ x.offset = e.offset /\ Rank(x.kind) <= Rank(e.kind)

\* Stream.insert(offset, element), the element carrying its offset.
StreamInsert(s, e) ==
    LET k == Cardinality({i \in 1..Len(s) : SortsBefore(s[i], e)})
    IN  SubSeq(s, 1, k) \o <<e>> \o SubSeq(s, k + 1, Len(s))

\* Faulty variant: the latest onset, not the latest end.
HighestTime_LatestOnset(s) == MaxOf({0} \cup {s[i].offset : i \in 1..Len(s)})

\* Stream.highestTime, also Stream.duration.quarterLength.
HighestTime(s) ==
    MaxOf({0} \cup {s[i].offset + s[i].dur : i \in 1..Len(s)})

\* Stream.append(element): the element is put at the end of the stream, at
\* offset highestTime, whatever offset it had in the stream it came from.
StreamAppend(s, e) == StreamInsert(s, [e EXCEPT !.offset = HighestTime(s)])

RECURSIVE AppendAll(_, _)
AppendAll(s, es) ==
    IF es = <<>> THEN s ELSE AppendAll(StreamAppend(s, Head(es)), Tail(es))

RECURSIVE InsertAll(_, _)
InsertAll(s, es) ==
    IF es = <<>> THEN s ELSE InsertAll(StreamInsert(s, Head(es)), Tail(es))

\* The flat stream of a parsed file whose elements were inserted in the order
\* of the sequence es; element i gets identity i.
MakeStream(es) ==
    LET before(i) == {j \in 1..Len(es) :
                        \/ es[j].offset < es[i].offset
                        \/ /\ es[j].offset = es[i].offset
                           /\ \/ Rank(es[j].kind) < Rank(es[i].kind)
                              \/ Rank(es[j].kind) = Rank(es[i].kind) /\ j < i}
    IN  [p \in 1..Len(es) |->
            LET i == CHOOSE i \in 1..Len(es) : Cardinality(before(i)) = p - 1
            IN  [es[i] EXCEPT !.id = i]]

Ids(s) == {s[i].id : i \in 1..Len(s)}

ById(s, id) == s[CHOOSE i \in 1..Len(s) : s[i].id = id]

-----------------------------------------------------------------------------
(* The steps of MidiToMusicXmlConverter._process_stream.                   *)

IsCopied(e) == e.kind \in CopiedKinds

\* Copy elements from the original stream.
Filter(stream_obj) == AppendAll(<<>>, SelectSeq(stream_obj, IsCopied))

\* The nearest multiple of the resolution q.
Snap(x, q) == ((2 * x + q) \div (2 * q)) * q

\* Stream.quantize: offsets and durations are snapped to the resolution.
Quantize(s, q) ==
    InsertAll(<<>>, [i \in 1..Len(s) |->
        [s[i] EXCEPT !.offset = Snap(@, q), !.dur = Snap(@, q)]])

\* The hard-coded 0.25 quarter lengths of _remove_redundant_rests.
RestThreshold == 1

\* "Only keep rests that are longer than a certain duration".
KeepsRest(dur, res) == dur > RestThreshold

RECURSIVE RemoveRedundantRestsFrom(_, _, _, _)
RemoveRedundantRestsFrom(s, i, res, filtered) ==
    IF i > Len(s) THEN filtered
    ELSE IF s[i].kind = "rest"
         THEN IF KeepsRest(s[i].dur, res)
              THEN RemoveRedundantRestsFrom(s, i + 1, res, StreamAppend(filtered, s[i]))
              ELSE RemoveRedundantRestsFrom(s, i + 1, res, filtered)
         ELSE RemoveRedundantRestsFrom(s, i + 1, res, StreamAppend(filtered, s[i]))

\* res is conversion_params['quantize_quarter_length'].
RemoveRedundantRests(s, res) == RemoveRedundantRestsFrom(s, 1, res, <<>>)

\* note_times is a dictionary from start time to end time, kept as a set of
\* <<start, end>> pairs; an assignment replaces the entry of the same start.
SetNoteTime(note_times, start_time, end_time) ==
    {p \in note_times : p[1] # start_time} \cup {<<start_time, end_time>>}

Overlapping_Closed(note_times, start_time, end_time) ==
    \E p \in note_times : ~(end_time < p[1] \/ start_time > p[2])

Overlapping(note_times, start_time, end_time) ==
    \E p \in note_times : ~(end_time <= p[1] \/ start_time >= p[2])

RECURSIVE CleanupOverlappingNotesFrom(_, _, _, _)
CleanupOverlappingNotesFrom(s, i, note_times, cleaned) ==
    IF i > Len(s) THEN cleaned
    ELSE LET start_time == s[i].offset
             end_time   == start_time + s[i].dur
         IN  IF s[i].kind = "note"
             THEN IF ~Overlapping(note_times, start_time, end_time)
                  THEN CleanupOverlappingNotesFrom(s, i + 1,
                           SetNoteTime(note_times, start_time, end_time),
                           StreamAppend(cleaned, s[i]))
                  ELSE CleanupOverlappingNotesFrom(s, i + 1, note_times, cleaned)
             ELSE CleanupOverlappingNotesFrom(s, i + 1, note_times,
                                              StreamAppend(cleaned, s[i]))

CleanupOverlappingNotes(s) == CleanupOverlappingNotesFrom(s, 1, {}, <<>>)

\* A fresh identity for an element the normalizer creates.
FreshId(s) == MaxOf({0} \cup Ids(s)) + 1

\* processed_stream.insert(0, marker).
InsertMarker(s, kind) == StreamInsert(s, Event(FreshId(s), kind, 0, 0, 0))

-----------------------------------------------------------------------------
(* MidiToMusicXmlConverter._assess_conversion_quality.                     *)

NotesForFullDensity == 100

QuartersForFullCoverage == 32

\* Scores are counted in units of 1/9600: a factor of 1.0 is FactorOne and
\* the average of three factors of 1.0 is ScoreOne.
FactorOne == NotesForFullDensity * QuartersForFullCoverage

ScoreOne == 3 * FactorOne

NoteCount(s) == Cardinality({i \in 1..Len(s) : s[i].kind = "note"})

HasKind(s, kind) == \E i \in 1..Len(s) : s[i].kind = kind

DensityFactor(s) ==
    IF NoteCount(s) > 0
    THEN MinOf({FactorOne, NoteCount(s) * QuartersForFullCoverage})
    ELSE 0

CoverageFactor(s) ==
    IF HighestTime(s) > 0
    THEN MinOf({FactorOne, (HighestTime(s) * NotesForFullDensity) \div TicksPerQuarter})
    ELSE 0

StructureFactor_KeyOnly(s) == IF HasKind(s, "key") THEN FactorOne ELSE 0

StructureFactor(s) ==
    (((IF HasKind(s, "key") THEN 1 ELSE 0) + (IF HasKind(s, "time") THEN 1 ELSE 0))
        * FactorOne) \div 2

\* "Default quality score" of the except branch.
FallbackScore == ScoreOne \div 2

\* The sum of the factors, neither divided by their number nor clamped.
AssessConversionQuality_Sum(s, anomaly) ==
    IF anomaly THEN FallbackScore
    ELSE 3 * (DensityFactor(s) + CoverageFactor(s) + StructureFactor(s))

\* sum(quality_factors) / len(quality_factors), clamped to [0, 1]; anomaly: an
\* exception was raised while the factors were computed.
AssessConversionQuality(s, anomaly) ==
    IF anomaly THEN FallbackScore
    ELSE MinOf({ScoreOne,
                MaxOf({0, DensityFactor(s) + CoverageFactor(s) + StructureFactor(s)})})

\* What a call of the scorer leaves behind: the float it returns, which the
\* caller stores under 'quality_score', and the warning the except branch
\* writes to the log.
NoReport == [returned |-> "nothing"]

ScorerOutcome(s, anomaly) ==
    [returned |-> "float",
     quality_score |-> AssessConversionQuality(s, anomaly),
     logged |-> IF anomaly THEN "Could not assess conversion quality" ELSE "None"]

-----------------------------------------------------------------------------
(* The functions of the converter applied to given streams.                *)

\* The pipeline's own variables.
pipevars == <<cfg, pc, returned, results, temp_files, final_musicxml, final,
              ci, fs, dirs, recent, hist>>

\* No run of the pipeline is in progress.
PipelineAtRest ==
    /\ cfg = [r \in Runs |-> IdleCfg]
    /\ pc = [r \in Runs |-> "idle"]
    /\ returned = [r \in Runs |-> [k \in ReturnKeys |-> NoRes]]
    /\ results = [r \in Runs |-> [k \in StageKeys |-> NoRes]]
    /\ temp_files = [r \in Runs |-> <<>>]
    /\ final_musicxml = [r \in Runs |-> None]
    /\ final = [r \in Runs |-> NoFinal]
    /\ ci = [r \in Runs |-> 1]
    /\ fs = InitFs({})
    /\ dirs = {}
    /\ recent = [k \in LookupKinds |-> <<>>]
    /\ hist = [r \in Runs |-> NoHist]

\* Bounds of the streams the functions are applied to.
MaxEvents == 3

MaxApply == 2

\* The values of conversion_params['quantize_quarter_length']: 0.25, 0.5.
Resolutions == {1, 2}

Voices == {1, 2}

\* Notes at onsets 0.0 and 0.5 with durations 0, 0.5 and 1.0, rests of
\* 0.25, 0.5 and 0.75, a chord and a key signature.
FnEvents ==
    {Event(0, "note", v, o, d) : v \in Voices, o \in {0, 2}, d \in {0, 2, 4}}
        \cup {Event(0, "rest", 1, 0, d) : d \in {1, 2, 3}}
        \cup {Event(0, "chord", 1, 0, 4), Event(0, "key", 0, 0, 0)}

SeqsUpTo(S, n) == UNION {[1..k -> S] : k \in 0..n}

FnInputs == SeqsUpTo(FnEvents, MaxEvents)

NoScore == -1

InitFn ==
    /\ PipelineAtRest
    /\ conf = NoConf
    /\ \E es \in FnInputs :
         ns = [mode |-> "fn", res |-> 1, input |-> <<>>,
               stream |-> MakeStream(es), log |-> <<>>,
               score |-> NoScore, anomaly |-> FALSE]

\* _remove_redundant_rests(stream), under some configured resolution.
ApplyRemoveRedundantRests ==
    /\ ns.mode = "fn"
    /\ Len(ns.log) < MaxApply
    /\ \E q \in Resolutions :
         ns' = [ns EXCEPT !.res = q, !.input = ns.stream,
                          !.stream = RemoveRedundantRests(ns.stream, q),
                          !.log = Append(@, "rests"), !.score = NoScore]
    /\ UNCHANGED <<pipevars, conf>>

\* _cleanup_overlapping_notes(stream).
ApplyCleanupOverlappingNotes ==
    /\ ns.mode = "fn"
    /\ Len(ns.log) < MaxApply
    /\ ns' = [ns EXCEPT !.input = ns.stream,
                        !.stream = CleanupOverlappingNotes(ns.stream),
                        !.log = Append(@, "overlaps"), !.score = NoScore]
    /\ UNCHANGED <<pipevars, conf>>

NextFn ==
    \/ ApplyRemoveRedundantRests
    \/ ApplyCleanupOverlappingNotes

SpecFn == InitFn /\ [][NextFn]_vars

\* Streams for the scorer: n notes of one voice, each d ticks long, one after
\* the other, then a rest of r ticks, with or without the structural markers.
ScoreStream(n, d, r, k, t) ==
    (IF k THEN <<Event(n + 2, "key", 0, 0, 0)>> ELSE <<>>)
        \o (IF t THEN <<Event(n + 3, "time", 0, 0, 0)>> ELSE <<>>)
        \o [i \in 1..n |-> Event(i, "note", 1, (i - 1) * d, d)]
        \o (IF r > 0 THEN <<Event(n + 1, "rest", 1, n * d, r)>> ELSE <<>>)

\* 0, 1 and around 100 notes; spans below, at and above 32 quarter lengths.
ScoreStreams ==
    {ScoreStream(n, d, r, k, t) :
        n \in {0, 1, 50, 99, 100, 101}, d \in {1, 2}, r \in {0, 64, 128},
        k \in BOOLEAN, t \in BOOLEAN}

InitScore ==
    /\ PipelineAtRest
    /\ conf = NoConf
    /\ \E s \in ScoreStreams :
         ns = [mode |-> "fn", res |-> 1, input |-> <<>>, stream |-> s,
               log |-> <<>>, score |-> NoScore, anomaly |-> FALSE,
               report |-> NoReport]

\* _assess_conversion_quality(stream).
ApplyAssessConversionQuality ==
    /\ ns.mode = "fn"
    /\ ns.score = NoScore
    /\ \E anomaly \in BOOLEAN :
         ns' = [ns EXCEPT !.score = AssessConversionQuality(ns.stream, anomaly),
                          !.anomaly = anomaly,
                          !.report = ScorerOutcome(ns.stream, anomaly)]
    /\ UNCHANGED <<pipevars, conf>>

NextScore == ApplyAssessConversionQuality

SpecScore == InitScore /\ [][NextScore]_vars

-----------------------------------------------------------------------------
(* Properties of overlap resolution.                                       *)

\* The half-open intervals [onset, onset + duration) of a and b intersect.
Intersects(a, b) ==
    MaxOf({a.offset, b.offset}) < MinOf({a.offset + a.dur, b.offset + b.dur})

NotesOf(s) == {i \in 1..Len(s) : s[i].kind = "note"}

\* The last function applied was f: ns.input went in, ns.stream came out.
Applied(f) == ns.mode = "fn" /\ ns.log # <<>> /\ Last(ns.log) = f

Retained(id) == id \in Ids(ns.stream)

\* One of a and b ends before or exactly where the other starts.
Apart(a, b) == a.offset + a.dur <= b.offset \/ b.offset + b.dur <= a.offset

C22_FirstComeWinsPerVoice ==
    Applied("overlaps") =>
        /\ \A i, j \in NotesOf(ns.stream) :
              i < j => ById(ns.input, ns.stream[i].id).offset
                           <= ById(ns.input, ns.stream[j].id).offset
        /\ \A i \in NotesOf(ns.input) :
              Retained(ns.input[i].id) <=>
                  ~\E j \in NotesOf(ns.input) :
                        /\ j < i
                        /\ ns.input[j].voice = ns.input[i].voice
                        /\ Retained(ns.input[j].id)
                        /\ Intersects(ns.input[j], ns.input[i])

\* C23: overlap resolution drops no rest, chord or marker, and it drops no
\* note that lies apart from every other note of its own voice, whatever the
\* notes of the other voices are.
C23_OtherVoicesNeverConflict ==
    Applied("overlaps") =>
        /\ \A i \in 1..Len(ns.input) :
              ns.input[i].kind # "note" => Retained(ns.input[i].id)
        /\ \A i \in NotesOf(ns.input) :
              (\A j \in NotesOf(ns.input) \ {i} :
                    ns.input[j].voice = ns.input[i].voice =>
                        Apart(ns.input[i], ns.input[j])) =>
                  Retained(ns.input[i].id)

-----------------------------------------------------------------------------
(* Properties of redundant-rest removal.                                   *)

\* C26: redundant-rest removal drops a rest if and only if its duration is
\* at most one unit of the configured resolution, and keeps every note,
\* chord and marker.
C26_RestDroppedIffWithinUnit ==
    Applied("rests") =>
        \A i \in 1..Len(ns.input) :
            Retained(ns.input[i].id) <=>
                ~(ns.input[i].kind = "rest" /\ ns.input[i].dur <= ns.res)

-----------------------------------------------------------------------------
(* Properties of the quality score.                                        *)

\* The scorer has returned a score it computed from the factors.
Scored == ns.mode = "fn" /\ ns.score # NoScore /\ ~ns.anomaly

\* The span of the stream, in quarter lengths, is at least q.
SpanAtLeast(s, q) == HighestTime(s) >= q * TicksPerQuarter

\* C29: the score is the average of density = min(1, notes/100),
\* coverage = min(1, span/32) and structure = 0.5 per marker kind present
\* (key signature, time signature), with equal weights; a stream of at least
\* 100 notes and 32 quarter lengths with both markers scores exactly 1.0.
C29_ScoreIsAverageOfFactors ==
    Scored =>
        LET s == ns.stream
            n == NoteCount(s)
            \* 100 * 128 * density, 100 * 128 * coverage, 100 * 128 * structure
            d == IF n >= 100 THEN 12800 ELSE 128 * n
            c == IF HighestTime(s) >= 128 THEN 12800 ELSE 100 * HighestTime(s)
            k == (IF HasKind(s, "key") THEN 6400 ELSE 0)
                     + (IF HasKind(s, "time") THEN 6400 ELSE 0)
        IN  /\ 4 * ns.score = d + c + k
            /\ (n >= 100 /\ SpanAtLeast(s, 32)
                    /\ HasKind(s, "key") /\ HasKind(s, "time"))
                   => ns.score = ScoreOne

C29_Witness ==
    /\ Scored
    /\ NoteCount(ns.stream) = 100
    /\ SpanAtLeast(ns.stream, 32)
    /\ HasKind(ns.stream, "key") /\ HasKind(ns.stream, "time")
    /\ ns.score = ScoreOne

\* C30: for a stream without notes the density and the coverage factor are
\* 0, the score is at most 0.5, and it is 0.0 when the stream has neither a
\* key signature nor a time signature.
C30_NoNotesScoresStructureOnly ==
    (Scored /\ NoteCount(ns.stream) = 0) =>
        /\ DensityFactor(ns.stream) = 0
        /\ CoverageFactor(ns.stream) = 0
        /\ 2 * ns.score <= ScoreOne
        /\ (~HasKind(ns.stream, "key") /\ ~HasKind(ns.stream, "time"))
               => ns.score = 0

\* The scorer has returned, by either path.
ScorerReturned == ns.mode = "fn" /\ ns.score # NoScore

\* C31: the score the scorer returns lies in [0, 1] for every stream, the
\* empty stream included, and on the fallback path as well.
C31_ScoreInUnitInterval ==
    ScorerReturned => (0 <= ns.score /\ ns.score <= ScoreOne)

C31_Witness ==
    /\ ScorerReturned
    /\ ns.stream = <<>>
    /\ ~ns.anomaly
    /\ ns.score = 0

\* C32: the scorer never raises; an anomaly while the factors are computed
\* yields the fallback score 0.5, and what the scorer returns then carries
\* an explanatory note among its component scores.
C32_AnomalyYieldsFallbackWithNote ==
    (ScorerReturned /\ ns.anomaly) =>
        /\ ns.score = FallbackScore
        /\ ns.report.returned = "float"
        /\ "componentScores" \in DOMAIN ns.report
        /\ ns.report.componentScores # <<>>

-----------------------------------------------------------------------------
(* MidiToMusicXmlConverter.convert_midi_to_musicxml, step by step.         *)

\* Bounds of the parsed files and of the number of conversions in a row.
MaxNormEvents == 1

MaxPasses == 2

\* The steps of _process_stream, in the order of the code.
StepOrder == <<"filter", "quantize", "rests", "overlaps", "key", "meter", "tempo">>

\* conversion_params: quantize, remove_redundant_rests,
\* cleanup_overlapping_notes, infer_key_signature, infer_time_signature,
\* add_tempo_markings, and res for quantize_quarter_length.
NormOpts ==
    {o \in [quantize : BOOLEAN, rests : BOOLEAN, overlaps : BOOLEAN,
            key : BOOLEAN, meter : BOOLEAN, tempo : BOOLEAN, res : Resolutions] :
        ~o.quantize => o.res = 1}

StepEnabled_Always(opts, step) == TRUE

\* The copy loop always runs; every other step is behind its parameter.
StepEnabled(opts, step) == step = "filter" \/ opts[step]

StepAfter_OverlapsFirst(step) ==
    CASE step = "filter"   -> "overlaps"
      [] step = "overlaps" -> "quantize"
      [] step = "quantize" -> "rests"
      [] step = "rests"    -> "key"
      [] step = "key"      -> "meter"
      [] step = "meter"    -> "tempo"
      [] OTHER             -> "write"

StepAfter(step) ==
    CASE step = "filter"   -> "quantize"
      [] step = "quantize" -> "rests"
      [] step = "rests"    -> "overlaps"
      [] step = "overlaps" -> "key"
      [] step = "key"      -> "meter"
      [] step = "meter"    -> "tempo"
      [] OTHER             -> "write"

\* Elements of a parsed file: notes of 0.25 and 0.75 quarter lengths and a
\* note of negative duration, at onsets 0.0 and 0.25; rests of 0.25 and 0.5;
\* a chord; the three markers; an element of another kind.
NormEvents ==
    {Event(0, "note", 1, o, d) : o \in {0, 1}, d \in {-1, 1, 3}}
        \cup {Event(0, "rest", 1, 0, d) : d \in {1, 2}}
        \cup {Event(0, "chord", 1, 0, 2)}
        \cup {Event(0, k, 0, 0, 0) : k \in {"tempo", "key", "time", "other"}}

NoPass == [stream |-> <<>>, log |-> <<"none">>]

\* The result dictionaries of convert_midi_to_musicxml.
ConvertFailed(msg) ==
    [success |-> FALSE, error |-> msg, quality_score |-> 0, notes_count |-> 0]

ConvertOk(s) ==
    [success |-> TRUE, error |-> "None",
     quality_score |-> AssessConversionQuality(s, FALSE),
     notes_count |-> NoteCount(s)]

InitNorm ==
    /\ PipelineAtRest
    /\ conf = NoConf
    /\ \E es \in SeqsUpTo(NormEvents, MaxNormEvents), o \in NormOpts :
         ns = [mode |-> "norm", opts |-> o, raw |-> MakeStream(es),
               src |-> MakeStream(es), stream |-> <<>>, pc |-> "filter",
               log |-> <<>>, pass |-> 1, first |-> NoPass, result |-> NoRes]

At(step) == ns.mode = "norm" /\ ns.pc = step

\* The step ran and produced stream s.
Ran(step, s) ==
    ns' = [ns EXCEPT !.stream = s, !.log = Append(@, step), !.pc = StepAfter(step)]

\* The step's parameter is off: the code goes on to the next step.
Skipped(step) == ns' = [ns EXCEPT !.pc = StepAfter(step)]

\* A library call of the step raised: the except clause of
\* convert_midi_to_musicxml returns a failed result.
Raised(step) ==
    ns' = [ns EXCEPT !.pc = "failed", !.log = Append(@, step \o "!"),
                     !.result = ConvertFailed("Conversion failed")]

FilterStep ==
    /\ At("filter")
    /\ Ran("filter", Filter(ns.src))
    /\ UNCHANGED <<pipevars, conf>>

\* Stream.quantize returns the quantized stream or raises.
QuantizeStep ==
    /\ At("quantize")
    /\ IF StepEnabled(ns.opts, "quantize")
       THEN \/ Ran("quantize", Quantize(ns.stream, ns.opts.res))
            \/ Raised("quantize")
       ELSE Skipped("quantize")
    /\ UNCHANGED <<pipevars, conf>>

RestsStep ==
    /\ At("rests")
    /\ IF StepEnabled(ns.opts, "rests")
       THEN Ran("rests", RemoveRedundantRests(ns.stream, ns.opts.res))
       ELSE Skipped("rests")
    /\ UNCHANGED <<pipevars, conf>>

OverlapsStep ==
    /\ At("overlaps")
    /\ IF StepEnabled(ns.opts, "overlaps")
       THEN Ran("overlaps", CleanupOverlappingNotes(ns.stream))
       ELSE Skipped("overlaps")
    /\ UNCHANGED <<pipevars, conf>>

\* analyze('key') returns a key, returns nothing or raises.
KeyStep ==
    /\ At("key")
    /\ IF StepEnabled(ns.opts, "key")
       THEN \/ Ran("key", InsertMarker(ns.stream, "key"))
            \/ Ran("key", ns.stream)
            \/ Raised("key")
       ELSE Skipped("key")
    /\ UNCHANGED <<pipevars, conf>>

\* analyze('meter') returns a time signature, returns nothing or raises.
MeterStep ==
    /\ At("meter")
    /\ IF StepEnabled(ns.opts, "meter")
       THEN \/ Ran("meter", InsertMarker(ns.stream, "time"))
            \/ Ran("meter", ns.stream)
            \/ Raised("meter")
       ELSE Skipped("meter")
    /\ UNCHANGED <<pipevars, conf>>

TempoStep ==
    /\ At("tempo")
    /\ IF StepEnabled(ns.opts, "tempo")
       THEN Ran("tempo", InsertMarker(ns.stream, "tempo"))
       ELSE Skipped("tempo")
    /\ UNCHANGED <<pipevars, conf>>

\* processed_stream.write, the check of the written file, the score and the
\* note count.
WriteAndAssess ==
    /\ At("write")
    /\ \/ ns' = [ns EXCEPT !.pc = "done", !.result = ConvertOk(ns.stream)]
       \/ ns' = [ns EXCEPT !.pc = "failed",
                           !.result = ConvertFailed("MusicXML file not created or empty")]
       \/ ns' = [ns EXCEPT !.pc = "failed",
                           !.result = ConvertFailed("Conversion failed")]
    /\ UNCHANGED <<pipevars, conf>>

\* The converter is run again, with the same parameters, on the stream it
\* produced.
NormalizeAgain ==
    /\ At("done")
    /\ ns.pass < MaxPasses
    /\ ns' = [ns EXCEPT !.pass = @ + 1, !.src = ns.stream,
                        !.first = [stream |-> ns.stream, log |-> ns.log],
                        !.stream = <<>>, !.log = <<>>, !.pc = "filter",
                        !.result = NoRes]
    /\ UNCHANGED <<pipevars, conf>>

NextNorm ==
    \/ FilterStep
    \/ QuantizeStep
    \/ RestsStep
    \/ OverlapsStep
    \/ KeyStep
    \/ MeterStep
    \/ TempoStep
    \/ WriteAndAssess
    \/ NormalizeAgain

SpecNorm == InitNorm /\ [][NextNorm]_vars

-----------------------------------------------------------------------------
(* Properties of the normalizer.                                           *)

\* What an element is, apart from its identity.
ShapeOf(s) == [i \in 1..Len(s) |-> <<s[i].kind, s[i].voice, s[i].offset, s[i].dur>>]

KindCount(s, kind) == Cardinality({i \in 1..Len(s) : s[i].kind = kind})

\* The conversion of this pass returned a successful result.
Normalized == ns.mode = "norm" /\ ns.pc = "done"

\* C24: normalization is idempotent: when the converter is run on its own
\* output with the same parameters (and the library gives the same answers),
\* the stream it produces equals that output event for event.
C24_NormalizeIdempotent ==
    (Normalized /\ ns.pass = 2 /\ ns.log = ns.first.log) =>
        ShapeOf(ns.stream) = ShapeOf(ns.first.stream)

\* The parameter that allows the normalizer to insert a marker of the kind.
InferenceOption(kind) ==
    CASE kind = "key" -> "key" [] kind = "time" -> "meter" [] OTHER -> "tempo"

\* C25: a marker of a kind is inserted only if the stream has none of that
\* kind, and the tempo marker only if its option is set: a stream that
\* carries a marker keeps exactly its own and gets no other of that kind.
C25_MarkerInsertedOnlyIfAbsent ==
    Normalized =>
        \A kind \in Markers :
            IF HasKind(ns.src, kind)
            THEN KindCount(ns.stream, kind) = KindCount(ns.src, kind)
            ELSE /\ KindCount(ns.stream, kind) <= 1
                 /\ HasKind(ns.stream, kind) => ns.opts[InferenceOption(kind)]

\* The steps that have run in this pass, a raised one included.
StepsRun == [i \in 1..Len(ns.log) |->
                IF i = Len(ns.log) /\ ns.pc = "failed" /\ ns.result.error = "Conversion failed"
                                   /\ ns.log[i] \notin Range(StepOrder)
                THEN StepOrder[CHOOSE k \in 1..Len(StepOrder) :
                                   ns.log[i] = StepOrder[k] \o "!"]
                ELSE ns.log[i]]

\* The copy loop, and every step whose parameter is on.
OptionOn(step) == step = "filter" \/ ns.opts[step]

\* C27: the steps run in the order filter, quantize, redundant-rest removal,
\* overlap resolution, key, meter, tempo; exactly the enabled ones run; and a
\* step whose option is off leaves the stream as it was.
C27_FixedStepOrder ==
    /\ [](ns.mode = "norm" =>
            /\ IsPrefix(StepsRun, SelectSeq(StepOrder, OptionOn))
            /\ ns.pc \in {"write", "done"} =>
                   StepsRun = SelectSeq(StepOrder, OptionOn))
    /\ [][(ns.mode = "norm" /\ ns.pc \in Range(StepOrder)
               /\ ~OptionOn(ns.pc))
            => (ns'.stream = ns.stream /\ ns'.log = ns.log)]_vars

\* A conversion went through with some steps on and some off.
C27_Witness ==
    /\ Normalized
    /\ ns.pass = 1
    /\ ns.log = <<"filter", "rests", "overlaps", "tempo">>
    /\ ~ns.opts.quantize /\ ~ns.opts.key /\ ~ns.opts.meter
    /\ Len(ns.raw) = MaxNormEvents

\* The places of the malformed events of a stream: negative durations.
Malformed(s) == {i \in 1..Len(s) : s[i].dur < 0}

MalformedEventError(i) == "MalformedEventError: event " \o ToString(i)

\* C28: a stream with a malformed event is never converted successfully:
\* the conversion fails, with an error that names the place of the event.
C28_MalformedEventFailsConversion ==
    (ns.mode = "norm" /\ ns.pass = 1 /\ Malformed(ns.raw) # {}) =>
        /\ ns.pc # "done"
        /\ ns.pc = "failed" =>
               \E i \in Malformed(ns.raw) : ns.result.error = MalformedEventError(i)
\* The place of the element of identity id in stream s.
PlaceOf(s, id) == CHOOSE i \in 1..Len(s) : s[i].id = id

\* Every element of after is an element of before, with the onset and the
\* duration it had there, and the elements of after are in the order they
\* had in before; within one voice their onsets do not decrease.
OnlyRemoves(before, after) ==
    /\ Ids(after) \subseteq Ids(before)
    /\ \A i \in 1..Len(after) :
          /\ after[i].offset = ById(before, after[i].id).offset
          /\ after[i].dur = ById(before, after[i].id).dur
    /\ \A i, j \in 1..Len(after) :
          i < j => PlaceOf(before, after[i].id) < PlaceOf(before, after[j].id)
    /\ \A i, j \in 1..Len(after) :
          (i < j /\ after[i].voice = after[j].voice) =>
              after[i].offset <= after[j].offset

\* C37: the filter, the removal of redundant rests and the resolution of
\* overlaps only remove events: every event a step retains keeps the onset
\* and the duration it had before the step, retained events keep their
\* relative order, and within one voice onsets do not decrease.
C37_StepsOnlyRemoveEvents ==
    [][\A step \in {"filter", "rests", "overlaps"} :
          (At(step) /\ ns'.log = Append(ns.log, step)) =>
              OnlyRemoves(IF step = "filter" THEN ns.src ELSE ns.stream,
                          ns'.stream)]_vars

\* C39: overlap resolution is idempotent: applied to its own output it drops
\* no further event and returns the same sequence of events.
C39_OverlapResolutionIdempotent ==
    Applied("overlaps") =>
        /\ CleanupOverlappingNotes(ns.stream) = ns.stream
        /\ (Len(ns.log) >= 2 /\ ns.log[Len(ns.log) - 1] = "overlaps") =>
               ns.stream = ns.input

\* The function was applied twice in a row to a stream of which the first
\* application dropped a note.
C39_Witness ==
    /\ Applied("overlaps")
    /\ ns.log = <<"overlaps", "overlaps">>
    /\ ns.stream = ns.input
    /\ Len(ns.stream) = MaxEvents - 1
    /\ NoteCount(ns.stream) >= 2

-----------------------------------------------------------------------------
(* Properties of the export.                                               *)

\* MusicExporter.export_project got as far as its call of generate_pdf: it
\* returned its summary.
PdfAttempted(r) == IsResult(final[r]) /\ "errors" \in final[r].keys

\* C33: PDF output is optional: the PDF is rendered only when the run's pdf
\* option is set, and when it is not set a missing PDF (the renderer being
\* unavailable included) does not make the export, or the run, fail.
C33_PdfOnlyWhenRequested ==
    \A r \in Runs :
        IsResult(final[r]) =>
            /\ PdfAttempted(r) => cfg[r].pdf
            /\ Invocations(r, "musescore") > 0 => cfg[r].pdf
            /\ (~cfg[r].pdf /\ ~final[r].success) =>
                   \/ final[r].has_error
                   \/ "Metadata generation failed" \in final[r].errors

\* C34: after every successful run the directory outputDir/projectId exists
\* and holds {projectId}.musicxml and {projectId}_metadata.json, both are in
\* the final result's file listing, and every path of the listing is a file
\* that exists in that directory.
C34_OutputDirectoryComplete ==
    \A r \in Runs :
        (IsResult(final[r]) /\ final[r].success) =>
            LET pid == cfg[r].pid
            IN  /\ pid \in dirs
                /\ final[r].project_dir = pid
                /\ {OutPath(pid, "musicxml"), OutPath(pid, "metadata")}
                       \subseteq final[r].files
                /\ \A p \in final[r].files :
                       p \in OutPaths /\ p[2] = pid /\ Exists(fs, p)

C34_Witness ==
    /\ pc[1] = "done"
    /\ IsResult(final[1]) /\ final[1].success
    /\ Exists(fs, OutPath(cfg[1].pid, "musicxml"))
    /\ Exists(fs, OutPath(cfg[1].pid, "metadata"))

\* The Refine stage ran and reported success.
RefineSucceeded(r) ==
    /\ returned[r]["refinement"] # NoRes
    /\ returned[r]["refinement"].success

\* C35: the artifact handed to Export is the Refine output if and only if
\* refinement was enabled and the Refine stage succeeded, and the Convert
\* artifact otherwise; when refinement is disabled the refiner is never
\* invoked and no refinement result is recorded.
C35_ExportGetsRefinedIffRefineSucceeded ==
    \A r \in Runs :
        /\ "export" \in Invoked(r) =>
              hist[r].export_arg =
                  IF cfg[r].refine /\ RefineSucceeded(r)
                  THEN returned[r]["refinement"].path
                  ELSE results[r]["conversion"].path
        /\ ~cfg[r].refine =>
              /\ "refine" \notin Invoked(r)
              /\ Invocations(r, "openai") = 0
              /\ returned[r]["refinement"] = NoRes
              /\ results[r]["refinement"] = NoRes

\* Both cases: a run with refinement whose export got the refined file, and
\* (in another behaviour) one without.
C35_Witness ==
    \E r \in Runs :
        /\ "export" \in Invoked(r)
        /\ cfg[r].refine /\ RefineSucceeded(r)
        /\ hist[r].export_arg = returned[r]["refinement"].path
        /\ hist[r].export_arg # results[r]["conversion"].path

-----------------------------------------------------------------------------
(* Properties of the transcribe adapter's lookup.                          *)

\* C36: when transcribe_audio reports success, the MIDI file it returns is
\* the one this invocation generated from the given audio file: never a file
\* that was in the shared output directory for another input.
C36_TranscribeReturnsOwnMidi ==
    \A r \in Runs :
        (/\ pc[r] = "transcribe_ret"
         /\ returned[r]["transcription"] # NoRes
         /\ returned[r]["transcription"].success) =>
            LET m == returned[r]["transcription"].path
            IN  /\ m \in hist[r].created
                /\ StemOf(m) = StemOf(results[r]["input"].path)

-----------------------------------------------------------------------------
(* The configuration object (src/utils/config.py).  Line 218 of the file   *)
(* reads "def def set(", which Python rejects; the class is modelled with  *)
(* that line read as "def set(".  Dictionaries are objects: default_config *)
(* and config map section names to references, heap maps a reference to   *)
(* the dictionary's content.                                               *)

CfgDefaultSections == {"conversion", "output"}

\* "custom" is a section the built-in defaults do not have.
CfgSections == CfgDefaultSections \cup {"custom"}

CfgKeys == {"quantize", "pdf_quality"}

\* What dict.get answers for a key the dictionary does not hold.
Unset == "None"

\* Values a caller, a file or the environment may give.
CfgValues == {"False", "low"}

\* The dictionaries of default_config, as __init__ writes them.
BuiltIn(section) ==
    [k \in CfgKeys |->
        IF section = "conversion" /\ k = "quantize" THEN "True"
        ELSE IF section = "output" /\ k = "pdf_quality" THEN "high"
        ELSE Unset]

EmptyDict == [k \in CfgKeys |-> Unset]

\* References: the dictionary of each built-in section is named after the
\* section; "new" is the dictionary made for a section that did not exist.
NoRef == "absent"

NewRef == "new"

Refs == CfgDefaultSections \cup {NewRef}

DefaultRef(section) == section

\* dict.copy(): a new outer dictionary that refers to the same section
\* dictionaries.
DictCopy(d) == d

\* A configuration whose outer dictionary is d: sections d lacks are absent.
AsConfig(d) == [s \in CfgSections |-> IF s \in DOMAIN d THEN d[s] ELSE NoRef]

\* A user's YAML file, as the set of its <<section, key, value>> entries.
CfgEntries == CfgSections \X CfgKeys \X CfgValues

UserFiles == {{}} \cup {{t} : t \in CfgEntries}

SectionsOf(user) == {t[1] : t \in user}

\* d.update(values), values being the entries of section s in user.
DictUpdate(d, user, s) ==
    [k \in CfgKeys |->
        IF \E t \in user : t[1] = s /\ t[2] = k
        THEN (CHOOSE t \in user : t[1] = s /\ t[2] = k)[3]
        ELSE d[k]]

\* _merge_configs(default, user): the merged outer dictionary and the heap
\* after the updates.
MergeConfigs(heap, default, user) ==
    LET merged == AsConfig(DictCopy(default))
        out == [s \in CfgSections |->
                   IF s \in SectionsOf(user) /\ merged[s] = NoRef THEN NewRef
                   ELSE merged[s]]
    IN  [config |-> out,
         heap |-> [r \in Refs |->
                     IF \E s \in SectionsOf(user) : out[s] = r
                     THEN LET s == CHOOSE s \in SectionsOf(user) : out[s] = r
                          IN  DictUpdate(IF merged[s] = NoRef THEN EmptyDict
                                         ELSE heap[r], user, s)
                     ELSE heap[r]]]

\* _load_config: the file is missing or unreadable, or it is merged.
LoadOutcomes == {"missing", "unreadable", "loaded"}

\* The environment: PDF_QUALITY is not set, or set to a value.
EnvSettings == {Unset} \cup {"low"}

\* Config.__init__: default_config, _load_config, _apply_env_overrides.
ConfigInit(outcome, user, pdf_quality) ==
    LET heap0 == [r \in Refs |->
                    IF r = NewRef THEN EmptyDict ELSE BuiltIn(r)]
        default_config == [s \in CfgDefaultSections |-> DefaultRef(s)]
        loaded == IF outcome = "loaded"
                  THEN MergeConfigs(heap0, default_config, user)
                  ELSE [config |-> AsConfig(DictCopy(default_config)), heap |-> heap0]
        ref == loaded.config["output"]
    IN  [mode |-> "on", default_config |-> default_config,
         config |-> loaded.config,
         heap |-> IF pdf_quality = Unset \/ ref = NoRef THEN loaded.heap
                  ELSE [loaded.heap EXCEPT ![ref]["pdf_quality"] = pdf_quality],
         last |-> "init"]

\* Config.get(section, key).
ConfigGet(c, section, key) ==
    IF c.config[section] = NoRef THEN Unset
    ELSE c.heap[c.config[section]][key]

\* Config.set(section, key, value).
ConfigSet(c, section, key, value) ==
    LET fresh == c.config[section] = NoRef
        ref == IF fresh THEN NewRef ELSE c.config[section]
        dict == IF fresh THEN EmptyDict ELSE c.heap[ref]
    IN  [c EXCEPT !.config[section] = ref,
                  !.heap[ref] = [dict EXCEPT ![key] = value],
                  !.last = "set"]

\* Config.reset_to_defaults().
ConfigReset(c) ==
    [c EXCEPT !.config = AsConfig(DictCopy(c.default_config)), !.last = "reset"]

InitCfg ==
    /\ PipelineAtRest
    /\ ns = NoNs
    /\ \E outcome \in LoadOutcomes, user \in UserFiles, e \in EnvSettings :
         /\ outcome # "loaded" => user = {}
         /\ conf = ConfigInit(outcome, user, e)

Set ==
    /\ conf.mode = "on"
    /\ \E s \in CfgSections, k \in CfgKeys, v \in CfgValues :
         conf' = ConfigSet(conf, s, k, v)
    /\ UNCHANGED <<pipevars, ns>>

ResetToDefaults ==
    /\ conf.mode = "on"
    /\ conf' = ConfigReset(conf)
    /\ UNCHANGED <<pipevars, ns>>

NextCfg ==
    \/ Set
    \/ ResetToDefaults

SpecCfg == InitCfg /\ [][NextCfg]_vars

\* C38: no operation modifies the built-in defaults: after any sequence of
\* set() calls, file merges and environment overrides, reset_to_defaults()
\* makes every get(section, key) return the built-in default.
C38_ResetRestoresDefaults ==
    (conf.mode = "on" /\ conf.last = "reset") =>
        \A s \in CfgSections, k \in CfgKeys :
            ConfigGet(conf, s, k) =
                IF s \in CfgDefaultSections THEN BuiltIn(s)[k] ELSE Unset

====
